---- MODULE Spec2Model ----
(***************************************************************************)
(* A model of helpers/image_manipulation/training_sample.py: the           *)
(* TrainingSample geometry pipeline (construction, aspect-bucket           *)
(* selection, target-size calculation, crop, resize, prepare).             *)
(*                                                                         *)
(* Numbers.  Sizes are pairs <<width, height>> of pixels; None is <<>>.    *)
(* Aspect ratios are floats rounded to two decimals in the program and are *)
(* kept here as integer hundredths (1.0 is 100, 1.5 is 150).  The          *)
(* configured resolution is a float and is kept in thousandths (512 pixels *)
(* is 512000, 1.0 megapixel is 1000), so resolution * 1e3 and int() are    *)
(* computed, not assumed.  Bucket weights are kept in quarters (0.25 is 1, *)
(* 1.0 is 4): quarters add up exactly in binary floating point, so the     *)
(* program's test  total_weight != 1.0  is the test  sum # 4  here.        *)
(*                                                                         *)
(* A method is an operator from the object to the object: the record s     *)
(* holds the fields of self, s.err the exception that is propagating       *)
(* ("none" when there is none), s.ret the aspect ratio last returned by    *)
(* _select_random_aspect, s.available the list last returned by            *)
(* _trim_aspect_bucket_list, and s.trace the steps the call in progress    *)
(* performed (instrumentation, not a field of the program).  A method      *)
(* applied to an                                                           *)
(* object with an exception in flight does nothing, which is how a raise   *)
(* skips the rest of its callers.                                          *)
(***************************************************************************)
EXTENDS Integers, Sequences, FiniteSets, TLC

VARIABLES
    cfg,        \* the data backend config (StateTracker.get_data_backend_config)
    store,      \* the metadata StateTracker holds for the image path
    img,        \* the image handed to the constructor
    arg_meta,   \* the image_metadata argument handed to the constructor
    s,          \* the TrainingSample
    pc,         \* "new": not constructed, "ready": constructed, "failed": __init__ raised
    op,         \* the operation last applied to the sample
    prepared,   \* the PreparedSample last returned by prepare()
    calls,      \* number of operations applied to the constructed sample
    rng,        \* the generator of the random module, shared by the process
    found,      \* per sample, the generator states its drawing steps started from
    files,      \* the files under the image cache directory of the CSV backend
    reads       \* the reads the CSV backend served, oldest first

vars == <<cfg, store, img, arg_meta, s, pc, op, prepared, calls, rng, found, files, reads>>

-----------------------------------------------------------------------------
(* Bounds *)

\* Longest configured crop_aspect_buckets list.
MaxBuckets == 2
\* Number of operations applied to one constructed sample.
MaxCalls == 2
\* Number of states of the random generator.
RngPeriod == 6

-----------------------------------------------------------------------------
(* Values *)

NoneSize == <<>>
\* The aspect_ratio attribute before anything assigned it.
NoAspect == -1
NoErr == "none"
\* The exception classes the program raises, and the spec's names for them.
DataError == "Exception"
ConfigurationError == "ValueError"

Range(seq) == {seq[i] : i \in DOMAIN seq}
Min(S) == CHOOSE x \in S : \A y \in S : x =< y
Max2(a, b) == IF a >= b THEN a ELSE b

NoMeta ==
    [isdict |-> FALSE, keys |-> {}, original_size |-> NoneSize,
     target_size |-> NoneSize, intermediary_size |-> NoneSize,
     crop_coordinates |-> NoneSize, aspect_ratio |-> NoAspect]

required_keys ==
    {"original_size", "target_size", "intermediary_size", "crop_coordinates",
     "aspect_ratio"}

\* Python truthiness of a metadata argument: None and {} are falsy.
Truthy(meta) == meta.isdict /\ meta.keys # {}

NoImage == [present |-> FALSE, size |-> NoneSize, rgb |-> TRUE, exif |-> FALSE]

-----------------------------------------------------------------------------
(* Aspect/size math (helpers.multiaspect.image.MultiaspectImage) *)

\* Python's round() of a quotient n/d to an integer: nearest, ties to even.
RoundDiv(n, d) ==
    LET q == n \div d
        r == n % d
    IN  IF 2 * r < d THEN q
        ELSE IF 2 * r > d THEN q + 1
        ELSE IF q % 2 = 0 THEN q ELSE q + 1

\* round(width / height, 2), in hundredths.
calculate_image_aspect_ratio(size) == RoundDiv(100 * size[1], size[2])

\* The alignment multiple (aspect_bucket_alignment).
Alignment == 64

\* round(value / multiple) * multiple, at least one multiple.
round_to_nearest_multiple(value) ==
    Max2(RoundDiv(value, Alignment) * Alignment, Alignment)

RECURSIVE IsqrtIn(_, _, _)
IsqrtIn(n, lo, hi) ==
    IF lo >= hi THEN lo
    ELSE LET mid == (lo + hi + 1) \div 2
         IN  IF mid * mid =< n THEN IsqrtIn(n, mid, hi) ELSE IsqrtIn(n, lo, mid - 1)

\* int(sqrt(n)) for the areas of the model.
Isqrt(n) == IsqrtIn(n, 0, 40000)

\* Pixel policy: the shorter edge is the resolution, the longer follows the aspect
\* ratio; the target is aligned, the intermediary size is not.
calculate_new_size_by_pixel_edge(aspect, resolution, original_size) ==
    LET edge == resolution \div 1000
        w == IF aspect < 100 THEN edge ELSE (edge * aspect) \div 100
        h == IF aspect < 100 THEN (edge * 100) \div aspect ELSE edge
        target == <<round_to_nearest_multiple(w), round_to_nearest_multiple(h)>>
    IN  [target_size |-> target, intermediary_size |-> <<w, h>>,
         aspect_ratio |-> calculate_image_aspect_ratio(target)]

\* Area policy: width * height is the megapixel budget at the aspect ratio.
calculate_new_size_by_pixel_area(aspect, resolution, original_size) ==
    LET pixels == resolution * 1000
        w == Isqrt((pixels \div 100) * aspect)
        h == Isqrt((pixels * 100) \div aspect)
        target == <<round_to_nearest_multiple(w), round_to_nearest_multiple(h)>>
    IN  [target_size |-> target, intermediary_size |-> <<w, h>>,
         aspect_ratio |-> calculate_image_aspect_ratio(target)]

\* resize_helpers: the resolution policy table.
resize_helpers == {"pixel", "area"}

\* self.target_size_calculator(aspect, resolution, original_size)
target_size_calculator(rtype, aspect, resolution, original_size) ==
    IF rtype = "pixel"
    THEN calculate_new_size_by_pixel_edge(aspect, resolution, original_size)
    ELSE calculate_new_size_by_pixel_area(aspect, resolution, original_size)

-----------------------------------------------------------------------------
(* Crop strategies (helpers.image_manipulation.cropping.crop_handlers) *)

crop_handlers == {"center", "corner", "random"}

\* crop_handler_cls(image=..., image_metadata=...)
NewCropper(image) == [image |-> image, intermediary_size |-> NoneSize]

\* The offset a style picks along one axis with the slack d; a randomized
\* style draws it (r selects 0, the middle or d).
CropOffset(style, d, r) ==
    IF style = "center" THEN d \div 2
    ELSE IF style = "corner" THEN d
    ELSE IF r = 0 THEN 0 ELSE IF r = 1 THEN d \div 2 ELSE d

\* cropper.crop(target_width, target_height) -> (image or None, (x, y))
cropper_crop(style, cropper, target, rx, ry) ==
    LET dx == Max2(0, cropper.intermediary_size[1] - target[1])
        dy == Max2(0, cropper.intermediary_size[2] - target[2])
    IN  [image |-> IF cropper.image.present
                   THEN [cropper.image EXCEPT !.size = target]
                   ELSE NoImage,
         crop_coordinates |-> <<CropOffset(style, dx, rx), CropOffset(style, dy, ry)>>]

-----------------------------------------------------------------------------
(* TrainingSample *)

Raise(self, e) == [self EXCEPT !.err = e]
Return(self, v) == [self EXCEPT !.ret = v]
Did(self, step) == [self EXCEPT !.trace = Append(@, step)]

\* The object before __init__ assigned anything.
BlankSample ==
    [image |-> NoImage, target_size |-> NoneSize, intermediary_size |-> NoneSize,
     original_size |-> NoneSize, image_metadata |-> NoMeta,
     original_aspect_ratio |-> NoAspect, current_size |-> NoneSize,
     crop_enabled |-> FALSE, crop_style |-> "", crop_aspect |-> "",
     crop_aspect_buckets |-> <<>>, crop_coordinates |-> NoneSize,
     cropper |-> NewCropper(NoImage), resolution |-> 0, resolution_type |-> "",
     target_area |-> 0, pixel_resolution |-> 0,
     target_downsample_size |-> 0, maximum_image_size |-> 0,
     valid_metadata |-> FALSE, aspect_ratio |-> NoAspect,
     err |-> NoErr, ret |-> 0, available |-> <<>>, trace |-> <<>>]

\* _set_resolution.  target_area is kept in thousandths of a pixel.
set_resolution(self) ==
    IF self.err # NoErr THEN self
    ELSE IF self.resolution_type = "pixel"
    THEN [self EXCEPT !.target_area = self.resolution,
                      !.pixel_resolution = self.resolution \div 1000]
    ELSE IF self.resolution_type = "area"
    THEN [self EXCEPT !.target_area = self.resolution * 1000000,
                      !.pixel_resolution = round_to_nearest_multiple(self.resolution)]
    ELSE Raise(self, DataError)

\* correct_image: convert to RGB, apply the EXIF orientation (a stored
\* rotation swaps width and height).
correct_image(self) ==
    IF self.err # NoErr THEN self
    ELSE IF self.image.present
    THEN Did([self EXCEPT !.image.rgb = TRUE,
                          !.image.exif = FALSE,
                          !.image.size = IF self.image.exif
                                         THEN <<@[2], @[1]>> ELSE @],
             "correct_image")
    ELSE self

\* _validate_image_metadata
validate_image_metadata(self) ==
    IF self.err # NoErr THEN self
    ELSE
    LET md == self.image_metadata
        valid == md.isdict /\ required_keys \subseteq md.keys
        s1 == IF valid
              THEN [self EXCEPT !.valid_metadata = TRUE,
                                !.original_size = md.original_size,
                                !.target_size = md.target_size,
                                !.intermediary_size = md.intermediary_size,
                                !.crop_coordinates = md.crop_coordinates,
                                !.aspect_ratio = md.aspect_ratio]
              ELSE [self EXCEPT !.valid_metadata = FALSE]
        s2 == [s1 EXCEPT !.original_aspect_ratio =
                             calculate_image_aspect_ratio(s1.original_size)]
    IN  IF ~valid /\ s2.image.present
        THEN [s2 EXCEPT !.original_size = s2.image.size]
        ELSE s2

\* __init__, lines 36-59: the fields, the metadata and the original size.
InitSize(image, image_metadata, looked_up) ==
    LET s0 == [BlankSample EXCEPT
                  !.image = image,
                  !.image_metadata = IF Truthy(image_metadata)
                                     THEN image_metadata ELSE looked_up]
    IN  IF image.present
        THEN [s0 EXCEPT !.original_size = image.size,
                        !.original_aspect_ratio = calculate_image_aspect_ratio(image.size),
                        !.current_size = image.size]
        ELSE IF image_metadata.isdict
        THEN IF "original_size" \in image_metadata.keys
             THEN [s0 EXCEPT !.original_size = image_metadata.original_size,
                             !.original_aspect_ratio =
                                 calculate_image_aspect_ratio(image_metadata.original_size),
                             !.current_size = image_metadata.original_size]
             \* calculate_image_aspect_ratio(None)
             ELSE Raise(s0, "TypeError")
        ELSE Raise(s0, DataError)

\* Mutant of InitConfig: the image is corrected before the crop style and
\* the resolution type are looked up.
InitConfigCorrectingFirst(self, image_metadata, config) ==
    IF self.err # NoErr THEN self
    ELSE
    LET s1 == [correct_image(self) EXCEPT
                  !.crop_enabled = config.crop,
                  !.crop_style = config.crop_style,
                  !.crop_aspect = config.crop_aspect,
                  !.crop_aspect_buckets = config.crop_aspect_buckets,
                  !.crop_coordinates = <<0, 0>>,
                  !.resolution = config.resolution,
                  !.resolution_type = config.resolution_type,
                  !.target_downsample_size = config.target_downsample_size,
                  !.maximum_image_size = config.maximum_image_size]
    IN  IF s1.crop_style \notin crop_handlers \/ s1.resolution_type \notin resize_helpers
        THEN Raise(s1, ConfigurationError)
        ELSE validate_image_metadata(
                 set_resolution([s1 EXCEPT !.cropper = NewCropper(self.image)]))

\* __init__, lines 64-92: the backend config, the cropper, the resolution
\* policy, then correct_image and _validate_image_metadata.
InitConfig(self, image_metadata, config) ==
    IF self.err # NoErr THEN self
    ELSE
    LET s1 == [self EXCEPT !.crop_enabled = config.crop,
                           !.crop_style = config.crop_style,
                           !.crop_aspect = config.crop_aspect,
                           !.crop_aspect_buckets = config.crop_aspect_buckets,
                           !.crop_coordinates = <<0, 0>>]
    IN  IF s1.crop_style \notin crop_handlers THEN Raise(s1, ConfigurationError)
        ELSE
        LET s2 == [s1 EXCEPT !.cropper = NewCropper(s1.image),
                             !.resolution = config.resolution,
                             !.resolution_type = config.resolution_type]
        IN  IF s2.resolution_type \notin resize_helpers
            THEN Raise(s2, ConfigurationError)
            ELSE
            LET s3 == set_resolution(s2)
                s4 == [s3 EXCEPT
                          !.target_downsample_size = config.target_downsample_size,
                          !.maximum_image_size = config.maximum_image_size]
            IN  validate_image_metadata(correct_image(s4))

\* TrainingSample(image, data_backend_id, image_metadata, image_path)
TrainingSample(image, image_metadata, looked_up, config) ==
    InitConfig(InitSize(image, image_metadata, looked_up), image_metadata, config)

-----------------------------------------------------------------------------
(* Aspect bucket selection *)

\* A configured bucket: a plain float, an {aspect, weight} record (a dict), or
\* an entry of another type (an int).
FloatBucket(a) == [kind |-> "float", aspect |-> a, weight |-> 0]
DictBucket(a, w) == [kind |-> "dict", aspect |-> a, weight |-> w]
IntBucket(a) == [kind |-> "int", aspect |-> a, weight |-> 0]

\* Mutant of WithinUpscaleThreshold: the comparisons point the other way.
WithinUpscaleThresholdFlipped(target_size, original_size) ==
    /\ 12 * target_size[1] > 10 * original_size[1]
    /\ 12 * target_size[2] > 10 * original_size[2]

\* The 20% threshold of _trim_aspect_bucket_list, lines 195-198:
\* target_size[0] * 1.2 < original_size[0] and target_size[1] * 1.2 < original_size[1]
WithinUpscaleThreshold(target_size, original_size) ==
    /\ 12 * target_size[1] < 10 * original_size[1]
    /\ 12 * target_size[2] < 10 * original_size[2]

\* _trim_aspect_bucket_list: returns the list of available aspects.  A dict is
\* read by its key "aspect_ratio", which an {aspect, weight} record lacks
\* (KeyError); an entry that is neither dict nor float raises ValueError.
trim_aspect_bucket_list(self) ==
    IF self.err # NoErr THEN self
    ELSE
    LET buckets == self.crop_aspect_buckets
        bad == {i \in DOMAIN buckets : buckets[i].kind # "float"}
        Works(bucket) ==
            WithinUpscaleThreshold(
                target_size_calculator(self.resolution_type, bucket.aspect,
                                       self.resolution, self.original_size).target_size,
                self.original_size)
        available == SelectSeq(buckets, Works)
    IN  IF bad # {}
        THEN Raise(Did(self, "trim"),
                   IF buckets[Min(bad)].kind = "dict"
                   THEN "KeyError" ELSE ConfigurationError)
        ELSE [Did(self, "trim") EXCEPT
                 !.available = [i \in DOMAIN available |-> available[i].aspect]]

\* any(test(bucket) for bucket in buckets) over n buckets, of which those at
\* `passing` pass the test and those at `unreadable` are of a type the test
\* cannot read (TypeError): "true", "false" or "TypeError".  any() stops at
\* the first bucket that passes, so a later unreadable bucket is not read.
AnyBucket(n, passing, unreadable) ==
    LET firstTrue == Min(passing \cup {n + 1})
        firstBad == Min(unreadable \cup {n + 1})
    IN  IF firstBad < firstTrue THEN "TypeError"
        ELSE IF firstTrue =< n THEN "true" ELSE "false"

\* The positions of the buckets of the kinds a test can read that are
\* portrait (aspect < 1.0), landscape (aspect > 1.0), and of the others.
PortraitAt(buckets, kinds) ==
    {i \in DOMAIN buckets : buckets[i].kind \in kinds /\ buckets[i].aspect < 100}
LandscapeAt(buckets, kinds) ==
    {i \in DOMAIN buckets : buckets[i].kind \in kinds /\ buckets[i].aspect > 100}
UnreadableAt(buckets, kinds) ==
    {i \in DOMAIN buckets : buckets[i].kind \notin kinds}

RECURSIVE SumWeights(_)
SumWeights(buckets) ==
    IF buckets = <<>> THEN 0 ELSE Head(buckets).weight + SumWeights(Tail(buckets))

\* random.choice(seq) / random.choices(seq, weights)[0]: pick selects the element.
Choice(seq, pick) == seq[((pick - 1) % Len(seq)) + 1]

\* bucket["aspect"] needs a dict; bucket > 1.0 needs a number.
Subscriptable == {"dict"}
Comparable == {"float", "int"}

\* Mutant of SelectWeighted: the weights are sampled without the test of
\* their sum.
SelectWeightedUnchecked(self, pick) ==
    LET buckets == self.crop_aspect_buckets
        has_portrait_buckets ==
            AnyBucket(Len(buckets), PortraitAt(buckets, Subscriptable),
                      UnreadableAt(buckets, Subscriptable))
        has_landscape_buckets ==
            AnyBucket(Len(buckets), LandscapeAt(buckets, Subscriptable),
                      UnreadableAt(buckets, Subscriptable))
        Positive(b) == b.weight > 0
        positive == SelectSeq(buckets, Positive)
    IN  IF has_portrait_buckets = "TypeError" \/ has_landscape_buckets = "TypeError"
        THEN Raise(self, "TypeError")
        ELSE IF has_portrait_buckets = "false" \/ has_landscape_buckets = "false"
        THEN Return(self, 100)
        ELSE IF \E i \in DOMAIN buckets : buckets[i].kind # "dict"
        THEN Raise(self, "TypeError")
        ELSE Return(Did(self, "sample"), Choice(positive, pick).aspect)

\* _select_random_aspect, lines 216-247: the weighted variant.
SelectWeighted(self, pick) ==
    LET buckets == self.crop_aspect_buckets
        has_portrait_buckets ==
            AnyBucket(Len(buckets), PortraitAt(buckets, Subscriptable),
                      UnreadableAt(buckets, Subscriptable))
        has_landscape_buckets ==
            AnyBucket(Len(buckets), LandscapeAt(buckets, Subscriptable),
                      UnreadableAt(buckets, Subscriptable))
        Positive(b) == b.weight > 0
        positive == SelectSeq(buckets, Positive)
    IN  IF has_portrait_buckets = "TypeError" \/ has_landscape_buckets = "TypeError"
        THEN Raise(self, "TypeError")
        ELSE IF has_portrait_buckets = "false" \/ has_landscape_buckets = "false"
        THEN Return(self, 100)
        ELSE IF \E i \in DOMAIN buckets : buckets[i].kind # "dict"
        THEN Raise(self, "TypeError")
        ELSE IF SumWeights(buckets) # 4
        THEN Raise(self, ConfigurationError)
        ELSE Return(Did(self, "sample"), Choice(positive, pick).aspect)

\* Mutant of SelectAvailable: the choice is made among the configured
\* buckets, not among the trimmed ones.
SelectAvailableUnfiltered(trimmed, pick) ==
    IF trimmed.err # NoErr THEN trimmed
    ELSE Return(Did(trimmed, "sample"), Choice(trimmed.crop_aspect_buckets, pick).aspect)

\* _select_random_aspect, lines 271-279: sample from the trimmed list, whose
\* call has returned in `trimmed`.
SelectAvailable(trimmed, pick) ==
    IF trimmed.err # NoErr THEN trimmed
    ELSE IF Len(trimmed.available) = 0 THEN Return(trimmed, 100)
    ELSE Return(Did(trimmed, "sample"), Choice(trimmed.available, pick))

\* Mutant of SelectFloat: no short-circuit to 1.0 when a bucket family is
\* missing.
SelectFloatNoShortCircuit(self, pick) ==
    SelectAvailable(trim_aspect_bucket_list(self), pick)

\* _select_random_aspect, lines 248-279: the float-list variant.
SelectFloat(self, pick) ==
    LET buckets == self.crop_aspect_buckets
        has_landscape_buckets ==
            AnyBucket(Len(buckets), LandscapeAt(buckets, Comparable),
                      UnreadableAt(buckets, Comparable))
        has_portrait_buckets ==
            AnyBucket(Len(buckets), PortraitAt(buckets, Comparable),
                      UnreadableAt(buckets, Comparable))
    IN  IF has_landscape_buckets = "TypeError" \/ has_portrait_buckets = "TypeError"
        THEN Raise(self, "TypeError")
        ELSE IF has_portrait_buckets = "false" \/ has_landscape_buckets = "false"
        THEN Return(self, 100)
        ELSE SelectAvailable(trim_aspect_bucket_list(self), pick)

\* Mutant of _select_random_aspect: stored metadata does not stop the
\* selection.
select_random_aspect_ignoring_metadata(self, pick) ==
    IF self.err # NoErr THEN self
    ELSE IF Len(self.crop_aspect_buckets) = 0 THEN Raise(self, ConfigurationError)
    ELSE IF self.crop_aspect_buckets[1].kind = "dict" THEN SelectWeighted(self, pick)
    ELSE IF self.crop_aspect_buckets[1].kind = "float" THEN SelectFloat(self, pick)
    ELSE Raise(self, ConfigurationError)

\* _select_random_aspect
select_random_aspect(self, pick) ==
    IF self.err # NoErr THEN self
    ELSE
    LET buckets == self.crop_aspect_buckets
    IN  IF Len(buckets) = 0 THEN Raise(self, ConfigurationError)
        ELSE IF self.valid_metadata
        THEN Return([self EXCEPT !.aspect_ratio = self.image_metadata.aspect_ratio],
                    self.image_metadata.aspect_ratio)
        ELSE IF buckets[1].kind = "dict" THEN SelectWeighted(self, pick)
        ELSE IF buckets[1].kind = "float" THEN SelectFloat(self, pick)
        ELSE Raise(self, ConfigurationError)

-----------------------------------------------------------------------------
(* Geometry *)

\* Mutant of correct_intermediary_square_size: the correction is left out.
correct_intermediary_square_size_missing(self) == self

\* correct_intermediary_square_size
correct_intermediary_square_size(self) ==
    IF self.err # NoErr THEN self
    ELSE IF self.aspect_ratio = 100 /\ self.intermediary_size[1] < self.pixel_resolution
    THEN [self EXCEPT !.intermediary_size = <<self.pixel_resolution, self.pixel_resolution>>,
                      !.crop_coordinates = <<0, 0>>]
    ELSE self

\* calculate_target_size, lines 453-467: crop enabled with crop_aspect=square.
SquareTargetSize(self) ==
    LET calc == target_size_calculator(self.resolution_type, self.aspect_ratio,
                                       self.resolution, self.original_size)
    IN  correct_intermediary_square_size(
            [self EXCEPT !.target_size = <<self.pixel_resolution, self.pixel_resolution>>,
                         !.intermediary_size = calc.intermediary_size,
                         !.aspect_ratio = 100])

\* Mutant of SnapSquareTarget: the square result keeps the aligned size the
\* resolution policy returned.
SnapSquareTargetMissing(self) == self

\* calculate_target_size, lines 482-483: a square result is the pixel resolution.
SnapSquareTarget(self) ==
    IF self.err # NoErr THEN self
    ELSE IF self.aspect_ratio = 100
    THEN [self EXCEPT !.target_size = <<self.pixel_resolution, self.pixel_resolution>>]
    ELSE self

\* calculate_target_size, lines 471-481: the fields take what the resolution
\* policy returned in `calc`; stored metadata keeps its intermediary size
\* under crop_aspect=random.
AssignPolicySizes(self, calc) ==
    [self EXCEPT !.target_size = calc.target_size,
                 !.intermediary_size =
                     IF self.crop_aspect # "random" \/ ~self.valid_metadata
                     THEN calc.intermediary_size ELSE @,
                 !.aspect_ratio = calculate_image_aspect_ratio(calc.target_size)]

\* calculate_target_size, lines 471-489: the resolution policy at self.aspect_ratio.
PolicyTargetSize(self) ==
    IF self.err # NoErr THEN self
    ELSE SnapSquareTarget(correct_intermediary_square_size(
             AssignPolicySizes(self,
                 target_size_calculator(self.resolution_type, self.aspect_ratio,
                                        self.resolution, self.original_size))))

\* calculate_target_size, line 470: self.aspect_ratio = self._select_random_aspect()
AssignSelected(selected) ==
    IF selected.err # NoErr THEN selected
    ELSE [selected EXCEPT !.aspect_ratio = selected.ret]

\* calculate_target_size, lines 453-489, with self.aspect_ratio the raw ratio.
TargetSizeAt(self, pick) ==
    IF self.crop_enabled /\ self.crop_aspect = "square" THEN SquareTargetSize(self)
    ELSE IF self.crop_enabled /\ self.crop_aspect = "random"
    THEN PolicyTargetSize(AssignSelected(select_random_aspect(self, pick)))
    ELSE PolicyTargetSize(self)

\* calculate_target_size
calculate_target_size(self, pick) ==
    IF self.err # NoErr THEN self
    ELSE TargetSizeAt(Did([self EXCEPT !.aspect_ratio =
                                          calculate_image_aspect_ratio(self.original_size)],
                          "calculate_target_size"),
                      pick)

-----------------------------------------------------------------------------
(* Resize and crop *)

\* area()
area(self) ==
    IF self.image.present THEN self.image.size[1] * self.image.size[2]
    ELSE self.original_size[1] * self.original_size[2]

\* cropper.set_image / cropper.set_intermediary_size / cropper.crop, and the
\* assignment of what crop returns to self.image and self.crop_coordinates.
RunCropper(self, bind, size, rx, ry) ==
    LET c1 == IF bind THEN [self.cropper EXCEPT !.image = self.image] ELSE self.cropper
        c2 == [c1 EXCEPT !.intermediary_size = size]
        out == cropper_crop(self.crop_style, c2, self.target_size, rx, ry)
    IN  Did([self EXCEPT !.cropper = c2,
                         !.image = out.image,
                         !.crop_coordinates = out.crop_coordinates],
            "cropper.crop")

\* resize(size), lines 569-578: an explicit size, or target_size = intermediary_size.
ResizeTo(self, size) ==
    IF self.err # NoErr THEN self
    ELSE
    LET s1 == IF self.image.present
              THEN [self EXCEPT !.image.size = size,
                                !.aspect_ratio = calculate_image_aspect_ratio(size)]
              ELSE self
        s2 == Did([s1 EXCEPT !.current_size = size], "resize")
    \* the debug message reads self.aspect_ratio
    IN  IF s2.aspect_ratio = NoAspect THEN Raise(s2, "AttributeError") ELSE s2

\* resize(), lines 548-567: resize to the intermediary size, then crop to the target.
ResizeThenCrop(self, rx, ry) ==
    IF self.err # NoErr THEN self
    ELSE
    LET s1 == IF self.image.present
              THEN [self EXCEPT !.image.size = self.intermediary_size]
              ELSE self
        s2 == Did([s1 EXCEPT !.current_size = self.intermediary_size], "resize")
    IN  RunCropper(s2, s2.image.present, s2.intermediary_size, rx, ry)

\* resize() going to the target size without the intermediary step.
ResizeToTargetDirectly(self, rx, ry) ==
    IF self.err # NoErr THEN self
    ELSE ResizeTo(self, self.target_size)

\* resize(), lines 547-574: size = self.target_size.
ResizeToTarget(self, rx, ry) ==
    IF self.err # NoErr THEN self
    ELSE IF self.target_size # self.intermediary_size
    THEN ResizeThenCrop(self, rx, ry)
    ELSE ResizeTo(self, self.target_size)

\* resize() trusting whatever sizes the sample holds.
SizesForResizeUncomputed(self, pick) == self

\* resize(), lines 543-546: the sizes are computed unless valid metadata
\* supplied them.
SizesForResize(self, pick) ==
    IF self.err # NoErr THEN self
    ELSE IF ~self.valid_metadata THEN calculate_target_size(self, pick)
    ELSE self

\* resize(size=None)
resize(self, size, pick, rx, ry) ==
    IF self.err # NoErr THEN self
    ELSE IF size = NoneSize
    THEN ResizeToTarget(SizesForResize(self, pick), rx, ry)
    ELSE ResizeTo(self, size)

\* _should_resize_before_crop deciding on oversized edges only.
should_resize_before_crop_oversize_only(self) ==
    IF ~self.crop_enabled \/ self.maximum_image_size = 0
       \/ self.target_downsample_size = 0
    THEN FALSE
    ELSE IF self.resolution_type = "pixel"
    THEN self.current_size[1] > self.pixel_resolution
         \/ self.current_size[2] > self.pixel_resolution
    ELSE area(self) > self.target_area \div 1000

\* _should_resize_before_crop
should_resize_before_crop(self) ==
    IF ~self.crop_enabled \/ self.maximum_image_size = 0
       \/ self.target_downsample_size = 0
    THEN FALSE
    ELSE IF self.resolution_type = "pixel"
    THEN (self.current_size[1] > self.pixel_resolution
          \/ self.current_size[2] > self.pixel_resolution)
         \/ (self.current_size[1] < self.pixel_resolution
             \/ self.current_size[2] < self.pixel_resolution)
    ELSE \/ area(self) > self.target_area \div 1000
         \/ area(self) < (self.target_area + 999) \div 1000
         \/ self.current_size[1] < self.target_size[1]
         \/ self.current_size[2] < self.target_size[2]

\* _calculate_target_downsample_size
calculate_target_downsample_size(self) ==
    LET ci == target_size_calculator(self.resolution_type, self.original_aspect_ratio,
                                     self.target_downsample_size,
                                     self.original_size).intermediary_size
    IN  IF ci[1] < self.target_size[1]
        THEN <<self.target_size[1], (ci[2] * self.target_size[1]) \div ci[1]>>
        ELSE IF ci[2] < self.target_size[2]
        THEN <<(ci[1] * self.target_size[2]) \div ci[2], self.target_size[2]>>
        ELSE ci

\* _downsample_before_crop
downsample_before_crop(self, pick, rx, ry) ==
    IF self.err # NoErr THEN self
    ELSE IF should_resize_before_crop(self)
    THEN resize(Did(self, "downsample"), calculate_target_downsample_size(self),
                pick, rx, ry)
    ELSE self

\* crop() leaving current_size as the cropper was given it.
CropToTargetKeepingSize(self, rx, ry) ==
    IF self.err # NoErr THEN self
    ELSE RunCropper(self, self.image.present, self.current_size, rx, ry)

\* crop(), lines 518-526: bind the image, crop to the target size.
CropToTarget(self, rx, ry) ==
    IF self.err # NoErr THEN self
    ELSE [RunCropper(self, self.image.present, self.current_size, rx, ry)
             EXCEPT !.current_size = self.target_size]

\* crop()
crop(self, pick, rx, ry) ==
    IF self.err # NoErr THEN self
    ELSE IF ~self.crop_enabled THEN self
    ELSE CropToTarget(
             downsample_before_crop(calculate_target_size(Did(self, "crop"), pick),
                                    pick, rx, ry),
             rx, ry)

-----------------------------------------------------------------------------
(* PreparedSample *)

NoPrepared ==
    [image |-> NoImage, tensor |-> FALSE, image_metadata |-> NoMeta,
     original_size |-> NoneSize, intermediary_size |-> NoneSize,
     target_size |-> NoneSize, aspect_ratio |-> NoAspect,
     crop_coordinates |-> NoneSize]

\* PreparedSample.__init__: the aspect ratio is recomputed from the image when
\* the image is a PIL image (a tensor's size is not a tuple).
PreparedSample(image, tensor, image_metadata, original_size, intermediary_size, target_size, aspect_ratio, crop_coordinates) ==
    [image |-> image, tensor |-> tensor,
     image_metadata |-> IF Truthy(image_metadata) THEN image_metadata ELSE NoMeta,
     original_size |-> original_size,
     intermediary_size |-> intermediary_size,
     target_size |-> target_size,
     aspect_ratio |-> IF image.present /\ ~tensor
                      THEN calculate_image_aspect_ratio(image.size)
                      ELSE aspect_ratio,
     crop_coordinates |-> crop_coordinates]

\* PreparedSample.to_dict
to_dict(p) ==
    [image |-> p.image, original_size |-> p.original_size,
     intermediary_size |-> p.intermediary_size, target_size |-> p.target_size,
     aspect_ratio |-> p.aspect_ratio, crop_coordinates |-> p.crop_coordinates]

\* Mutant of ResizeUncropped: prepare() resizes whether or not crop is enabled.
ResizeUncroppedAlways(self, pick, rx, ry) ==
    IF self.err = NoErr THEN resize(self, NoneSize, pick, rx, ry) ELSE self

\* prepare(), lines 304-306: if not self.crop_enabled: self.resize()
ResizeUncropped(self, pick, rx, ry) ==
    IF self.err = NoErr /\ ~self.crop_enabled
    THEN resize(self, NoneSize, pick, rx, ry)
    ELSE self

\* prepare(), lines 301-306: crop, and resize when crop is disabled.
PrepareGeometry(self, pick, rx, ry) ==
    ResizeUncropped(crop(self, pick, rx, ry), pick, rx, ry)

\* prepare(), lines 308-328: the PreparedSample of the sample's fields.
Emit(self, return_tensor) ==
    PreparedSample(self.image, return_tensor /\ self.image.present,
                   self.image_metadata, self.original_size, self.intermediary_size,
                   self.target_size, self.aspect_ratio, self.crop_coordinates)

-----------------------------------------------------------------------------
(* Inputs *)

Image(size, rgb, exif) == [present |-> TRUE, size |-> size, rgb |-> rgb, exif |-> exif]

\* A landscape RGB image, a small square RGBA image, a portrait image, and a
\* landscape image stored rotated (its EXIF orientation swaps the edges).
Landscape == Image(<<4000, 2000>>, TRUE, FALSE)
SmallSquare == Image(<<500, 500>>, FALSE, FALSE)
Portrait == Image(<<600, 900>>, TRUE, FALSE)
Rotated == Image(<<2000, 4000>>, TRUE, TRUE)

Meta(keys, original_size, target_size, intermediary_size, crop_coordinates, aspect_ratio) ==
    [isdict |-> TRUE, keys |-> keys, original_size |-> original_size,
     target_size |-> target_size, intermediary_size |-> intermediary_size,
     crop_coordinates |-> crop_coordinates, aspect_ratio |-> aspect_ratio]

\* {}
EmptyMeta == [NoMeta EXCEPT !.isdict = TRUE]
\* {"original_size": (4000, 2000)}
SizeOnlyMeta == [EmptyMeta EXCEPT !.keys = {"original_size"},
                                  !.original_size = <<4000, 2000>>]
\* What an earlier run stored for the landscape image under the pixel policy
\* at 500, crop enabled, crop_aspect=square, a centred crop.
SquareMeta ==
    Meta(required_keys, <<4000, 2000>>, <<500, 500>>, <<1000, 500>>, <<1750, 750>>, 100)
\* What an earlier run stored for it with crop_aspect=random and the bucket 1.5.
BucketMeta ==
    Meta(required_keys, <<4000, 2000>>, <<768, 512>>, <<750, 500>>, <<1616, 744>>, 150)

Config(enabled, style, aspect, buckets, resolution, rtype, downsample) ==
    [crop |-> enabled, crop_style |-> style, crop_aspect |-> aspect,
     crop_aspect_buckets |-> buckets, resolution |-> resolution,
     resolution_type |-> rtype, target_downsample_size |-> downsample,
     maximum_image_size |-> downsample]

\* The resolutions of the model: 500 pixels, 1.0 megapixel.
Resolutions == {<<"pixel", 500000>>, <<"area", 1000>>}
\* The downsample resolution configured with each: 1000 pixels, 2.0 megapixels.
DownsampleOf(r) == IF r[1] = "pixel" THEN 1000000 ELSE 2000

BothBuckets == <<FloatBucket(50), FloatBucket(150)>>

\* The backend configs of the pipeline: every crop setting under both
\* policies, and configs naming an unknown crop style or resolution type.
PipelineConfigs ==
    {Config(enabled, style, aspect, BothBuckets, r[2], r[1], d) :
        enabled \in BOOLEAN, style \in {"center", "random"},
        aspect \in {"square", "random", "preserve"}, r \in Resolutions, d \in {0}}
    \cup {Config(TRUE, "center", aspect, BothBuckets, r[2], r[1], DownsampleOf(r)) :
        aspect \in {"square", "preserve"}, r \in Resolutions}
    \cup {Config(TRUE, "diagonal", "square", BothBuckets, 500000, "pixel", 0),
          Config(FALSE, "center", "square", BothBuckets, 500000, "edge", 0),
          Config(TRUE, "diagonal", "random", BothBuckets, 1000, "edge", 0)}

\* random.seed(seed): the generator and the seed it started from.
Seeded(seed) == [seed |-> seed, state |-> seed]

InitWith(Configs, Images, ArgMetas, Stores) ==
    /\ cfg \in Configs
    /\ img \in Images
    /\ arg_meta \in ArgMetas
    /\ store \in Stores
    /\ s = BlankSample
    /\ pc = "new"
    /\ op = "none"
    /\ prepared = NoPrepared
    /\ calls = 0
    /\ rng = Seeded(0)
    /\ found = <<>>
    /\ files = <<>>
    /\ reads = <<>>

Init ==
    InitWith(PipelineConfigs, {NoImage, Landscape, SmallSquare, Rotated},
             {NoMeta, EmptyMeta, SizeOnlyMeta, SquareMeta, BucketMeta},
             {NoMeta, SquareMeta})

-----------------------------------------------------------------------------
(* Operations *)

\* The sample as a caller holds it when it makes a call: no exception in
\* flight, and the steps of the earlier calls forgotten.
Idle(self) == [self EXCEPT !.err = NoErr, !.trace = <<>>]

\* What random.choice and a randomized crop style draw.  A draw nothing reads
\* (the crop style is not randomized, crop_aspect is not random) is fixed.
Picks == 1..MaxBuckets
Draws == 0..2
PicksOf(self) == IF self.crop_aspect = "random" THEN Picks ELSE {1}
DrawsOf(self) == IF self.crop_style = "random" THEN Draws ELSE {0}

\* sample = TrainingSample(image, data_backend_id, image_metadata, image_path)
Construct ==
    /\ pc = "new"
    /\ s' = TrainingSample(img, arg_meta, store, cfg)
    /\ pc' = IF s'.err = NoErr THEN "ready" ELSE "failed"
    /\ op' = "__init__"
    /\ UNCHANGED <<files, reads, rng, found, cfg, store, img, arg_meta, prepared, calls>>

\* sample.prepare(return_tensor); a tensor is asked for only of a bound image.
Prepare ==
    /\ pc = "ready"
    /\ calls < MaxCalls
    /\ \E pick \in PicksOf(s), rx \in DrawsOf(s), ry \in DrawsOf(s),
          return_tensor \in BOOLEAN :
          \E s1 \in {PrepareGeometry(Idle(s), pick, rx, ry)} :
              /\ return_tensor => s1.image.present
              /\ s' = IF s1.err = NoErr THEN Did(s1, "PreparedSample") ELSE s1
              /\ prepared' = IF s1.err = NoErr THEN Emit(s1, return_tensor) ELSE prepared
    /\ op' = "prepare"
    /\ calls' = calls + 1
    /\ UNCHANGED <<files, reads, rng, found, cfg, store, img, arg_meta, pc>>

\* sample.calculate_target_size()
CalculateTargetSize ==
    /\ pc = "ready"
    /\ calls < MaxCalls
    /\ \E pick \in PicksOf(s) : s' = calculate_target_size(Idle(s), pick)
    /\ op' = "calculate_target_size"
    /\ calls' = calls + 1
    /\ UNCHANGED <<files, reads, rng, found, cfg, store, img, arg_meta, pc, prepared>>

Next == Construct \/ Prepare \/ CalculateTargetSize

Spec == Init /\ [][Next]_vars

-----------------------------------------------------------------------------
(* The steps of the pipeline called one by one *)

\* sample.crop()
Crop ==
    /\ pc = "ready"
    /\ calls < MaxCalls
    /\ \E pick \in PicksOf(s), rx \in DrawsOf(s), ry \in DrawsOf(s) :
          s' = crop(Idle(s), pick, rx, ry)
    /\ op' = "crop"
    /\ calls' = calls + 1
    /\ UNCHANGED <<files, reads, rng, found, cfg, store, img, arg_meta, pc, prepared>>

\* The sizes a caller passes to resize(): none, or an explicit one.
ResizeArguments == {NoneSize, <<640, 480>>}

\* sample.resize(size)
Resize ==
    /\ pc = "ready"
    /\ calls < MaxCalls
    /\ \/ /\ \E pick \in PicksOf(s), rx \in DrawsOf(s), ry \in DrawsOf(s) :
                s' = resize(Idle(s), NoneSize, pick, rx, ry)
          /\ op' = "resize"
       \/ /\ \E size \in ResizeArguments \ {NoneSize} :
                s' = resize(Idle(s), size, 1, 0, 0)
          /\ op' = "resize(size)"
    /\ calls' = calls + 1
    /\ UNCHANGED <<files, reads, rng, found, cfg, store, img, arg_meta, pc, prepared>>

\* Samples that construct: an image or metadata holding the original size.
InitSteps ==
    InitWith(PipelineConfigs, {NoImage, Landscape, SmallSquare, Rotated},
             {SizeOnlyMeta, SquareMeta}, {NoMeta})

NextSteps == Construct \/ Prepare \/ Crop \/ Resize

SpecSteps == InitSteps /\ [][NextSteps]_vars

-----------------------------------------------------------------------------
(* Aspect selection on its own *)

\* The entries a bucket list is made of: floats, {aspect, weight} records
\* with weights 0.25, 0.5 and 0.75, and an int.
BucketEntries ==
    {FloatBucket(a) : a \in {50, 100, 150}}
    \cup {DictBucket(a, w) : a \in {50, 150}, w \in 1..3}
    \cup {IntBucket(200)}

\* A float list with a square bucket between a portrait and a landscape one.
WithSquareBucket == <<FloatBucket(50), FloatBucket(100), FloatBucket(150)>>

RECURSIVE ListsUpTo(_)
ListsUpTo(n) ==
    IF n = 0 THEN {<<>>}
    ELSE LET shorter == ListsUpTo(n - 1)
         IN  shorter \cup {Append(l, e) : l \in shorter, e \in BucketEntries}

\* crop_aspect=random with every bucket list, under the pixel policy at 500
\* and at 700 and the area policy at 1.0 megapixel.
SelectConfigs ==
    {Config(TRUE, "center", "random", buckets, r[2], r[1], 0) :
        buckets \in ListsUpTo(MaxBuckets) \cup {WithSquareBucket},
        r \in {<<"pixel", 500000>>, <<"pixel", 700000>>, <<"area", 1000>>}}

InitSelect ==
    InitWith(SelectConfigs, {NoImage, Landscape, SmallSquare, Portrait},
             {NoMeta, BucketMeta}, {NoMeta})

\* sample._select_random_aspect()
SelectRandomAspect ==
    /\ pc = "ready"
    /\ calls < MaxCalls
    /\ \E pick \in Picks : s' = select_random_aspect(Idle(s), pick)
    /\ op' = "_select_random_aspect"
    /\ calls' = calls + 1
    /\ UNCHANGED <<files, reads, rng, found, cfg, store, img, arg_meta, pc, prepared>>

\* sample._trim_aspect_bucket_list()
TrimAspectBucketList ==
    /\ pc = "ready"
    /\ calls < MaxCalls
    /\ s' = trim_aspect_bucket_list(Idle(s))
    /\ op' = "_trim_aspect_bucket_list"
    /\ calls' = calls + 1
    /\ UNCHANGED <<files, reads, rng, found, cfg, store, img, arg_meta, pc, prepared>>

NextSelect == Construct \/ SelectRandomAspect \/ TrimAspectBucketList

SpecSelect == InitSelect /\ [][NextSelect]_vars

-----------------------------------------------------------------------------
(* prepare() taken one statement at a time *)

\* In this specification pc follows one call of prepare() through its
\* statements: "ready" before the call, "calculated" after crop() computed the
\* sizes, "downsampled" after the downsample, "resizing" inside resize() once
\* the sizes are there, "sized" after the cropper or the resize, "prepared"
\* once the PreparedSample is built.  An exception ends the call in "failed".
After(out, next) == IF out.err = NoErr THEN next ELSE "failed"

InitPrepare ==
    InitWith(PipelineConfigs, {NoImage, Landscape, SmallSquare},
             {SizeOnlyMeta, SquareMeta, BucketMeta}, {NoMeta})

\* One statement of prepare() took the sample to `out`.
PrepareStep(name, out, next) ==
    /\ s' = out
    /\ pc' = After(out, next)
    /\ op' = name
    /\ UNCHANGED <<files, reads, rng, found, cfg, store, img, arg_meta, prepared, calls>>

\* crop(), line 515: self.calculate_target_size()
PrepareCalculate ==
    /\ pc = "ready" /\ s.crop_enabled
    /\ \E pick \in PicksOf(s) :
          PrepareStep("calculate_target_size",
                      calculate_target_size(Did(Idle(s), "crop"), pick), "calculated")

\* crop(), line 516: self._downsample_before_crop()
PrepareDownsample ==
    /\ pc = "calculated"
    /\ PrepareStep("_downsample_before_crop", downsample_before_crop(s, 1, 0, 0),
                   "downsampled")

\* crop(), lines 518-526: the cropper run
PrepareCrop ==
    /\ pc = "downsampled"
    /\ \E rx \in DrawsOf(s), ry \in DrawsOf(s) :
          PrepareStep("cropper.crop", CropToTarget(s, rx, ry), "sized")

\* prepare(), line 306, and resize(), lines 543-546
PrepareSizes ==
    /\ pc = "ready" /\ ~s.crop_enabled
    /\ \E pick \in PicksOf(s) :
          PrepareStep("resize", SizesForResize(Idle(s), pick), "resizing")

\* resize(), lines 547-578
PrepareResize ==
    /\ pc = "resizing"
    /\ \E rx \in DrawsOf(s), ry \in DrawsOf(s) :
          PrepareStep("resize", ResizeToTarget(s, rx, ry), "sized")

\* prepare(), lines 308-322: the PreparedSample
PrepareEmit ==
    /\ pc = "sized"
    /\ \E return_tensor \in BOOLEAN :
          /\ return_tensor => s.image.present
          /\ prepared' = Emit(s, return_tensor)
    /\ s' = Did(s, "PreparedSample")
    /\ pc' = "prepared"
    /\ op' = "PreparedSample"
    /\ UNCHANGED <<files, reads, rng, found, cfg, store, img, arg_meta, calls>>

NextPrepare ==
    \/ Construct
    \/ PrepareCalculate \/ PrepareDownsample \/ PrepareCrop
    \/ PrepareSizes \/ PrepareResize
    \/ PrepareEmit

SpecPrepare == InitPrepare /\ [][NextPrepare]_vars

-----------------------------------------------------------------------------
(* The downsample decision and the downsample size, asked of a sample *)

\* Images around the resolutions: smaller than 500 pixels on both edges, one
\* megapixel as a square, and one megapixel at the aspect 6.25.
Thumb == Image(<<400, 300>>, TRUE, FALSE)
Megapixel == Image(<<1000, 1000>>, TRUE, FALSE)
Wide == Image(<<2500, 400>>, TRUE, FALSE)

\* The target_downsample_size configured with each resolution: below it
\* (250 pixels, 0.25 megapixels) and above it.
DownsampleSizesOf(r) == {IF r[1] = "pixel" THEN 250000 ELSE 250, DownsampleOf(r)}

\* Backend configs with maximum_image_size and target_downsample_size set
\* or left out independently of one another.
DownsampleConfigsOf(r) ==
    {[Config(enabled, "center", aspect, BothBuckets, r[2], r[1], t)
         EXCEPT !.maximum_image_size = m] :
        enabled \in BOOLEAN, aspect \in {"square", "preserve"},
        t \in {0} \cup DownsampleSizesOf(r), m \in {0, DownsampleOf(r)}}

DownsampleConfigs == UNION {DownsampleConfigsOf(r) : r \in Resolutions}

InitDownsample ==
    InitWith(DownsampleConfigs, {Landscape, SmallSquare, Thumb, Megapixel, Wide},
             {NoMeta}, {NoMeta})

\* sample._should_resize_before_crop(), asked as crop() asks it: once the
\* target size is known.
ShouldResizeBeforeCrop ==
    /\ pc = "ready"
    /\ s.target_size # NoneSize
    /\ s' = Return(Idle(s), should_resize_before_crop(s))
    /\ op' = "_should_resize_before_crop"
    /\ UNCHANGED <<files, reads, rng, found, cfg, store, img, arg_meta, pc, prepared, calls>>

\* sample._calculate_target_downsample_size(), of a sample configured with a
\* downsample resolution.
CalculateTargetDownsampleSize ==
    /\ pc = "ready"
    /\ s.target_size # NoneSize
    /\ s.target_downsample_size # 0
    /\ s' = Return(Idle(s), calculate_target_downsample_size(s))
    /\ op' = "_calculate_target_downsample_size"
    /\ UNCHANGED <<files, reads, rng, found, cfg, store, img, arg_meta, pc, prepared, calls>>

NextDownsample ==
    \/ Construct
    \/ CalculateTargetSize
    \/ Crop
    \/ ShouldResizeBeforeCrop
    \/ CalculateTargetDownsampleSize

SpecDownsample == InitDownsample /\ [][NextDownsample]_vars

-----------------------------------------------------------------------------
(* Two samples processed by two workers *)

\* In this specification img, arg_meta, s, pc and prepared hold one value per
\* sample, and cfg is the one backend config both samples read.  The steps
\* of prepare() interleave; all draws come from the generator of the random
\* module, which every random.choice, random.choices and randomized crop of
\* the process advances.
Samples == {1, 2}

\* A draw advances the generator; its output selects a bucket or an offset.
Advance(g) == [g EXCEPT !.state = (@ + 1) % RngPeriod]
PickFrom(g) == g.state + 1
DrawFrom(g) == g.state % 3

\* A sample together with the generator its next step draws from.
Worker(self, g) == [sample |-> self, rng |-> g]

\* The generator after a step that ended in `out`: random.choice(s) drew once
\* if the step sampled a bucket.
AfterSampling(out, g) ==
    Worker(out, IF "sample" \in Range(out.trace) THEN Advance(g) ELSE g)

\* The generator after a step that ended in `out`: a randomized crop drew
\* both offsets if the step ran the cropper.
AfterCropping(out, g) ==
    Worker(out, IF out.crop_style = "random" /\ "cropper.crop" \in Range(out.trace)
                THEN Advance(Advance(g)) ELSE g)

\* crop(), line 515: self.calculate_target_size()
StepCalculate(w) ==
    AfterSampling(calculate_target_size(Idle(w.sample), PickFrom(w.rng)), w.rng)

\* crop(), line 516: self._downsample_before_crop()
StepDownsample(w) ==
    Worker(downsample_before_crop(Idle(w.sample), 1, 0, 0), w.rng)

\* crop(), lines 518-526: the cropper run
StepCrop(w) ==
    AfterCropping(CropToTarget(Idle(w.sample), DrawFrom(w.rng), DrawFrom(Advance(w.rng))),
                  w.rng)

\* prepare(), line 306: self.resize()
StepResize(w) ==
    AfterCropping(resize(Idle(w.sample), NoneSize, 1,
                         DrawFrom(w.rng), DrawFrom(Advance(w.rng))),
                  w.rng)

\* prepare() run by one worker without interruption.
ProcessAlone(w) ==
    IF w.sample.crop_enabled
    THEN StepCrop(StepDownsample(StepCalculate(w)))
    ELSE StepResize(w)

\* The backend configs two samples are processed under.
PairConfigs ==
    {Config(enabled, style, aspect, BothBuckets, r[2], r[1], 0) :
        enabled \in BOOLEAN, style \in {"center", "random"},
        aspect \in {"square", "random"}, r \in Resolutions}
    \cup {Config(TRUE, "center", "square", BothBuckets, r[2], r[1], DownsampleOf(r)) :
        r \in Resolutions}

InitPair ==
    /\ cfg \in PairConfigs
    /\ img \in [Samples -> {Landscape, SmallSquare}]
    /\ arg_meta \in {[i \in Samples |-> NoMeta], [i \in Samples |-> BucketMeta]}
    /\ store = NoMeta
    /\ s = [i \in Samples |-> BlankSample]
    /\ pc = [i \in Samples |-> "new"]
    /\ op = "none"
    /\ prepared = [i \in Samples |-> NoPrepared]
    /\ calls = 0
    /\ rng \in {Seeded(seed) : seed \in 0..(RngPeriod - 1)}
    /\ found = [i \in Samples |-> <<>>]
    /\ files = <<>>
    /\ reads = <<>>

\* The steps that may draw from the generator.
DrawingSteps == {"calculate_target_size", "crop", "resize"}

\* Mutant of PairStep: aspect_ratio is kept on the class, so a step of one
\* sample writes the other sample's as well.
PairStepSharingAspect(i, name, out, next) ==
    /\ s' = [j \in Samples |->
                IF j = i THEN out.sample
                ELSE [s[j] EXCEPT !.aspect_ratio = out.sample.aspect_ratio]]
    /\ rng' = out.rng
    /\ found' = IF name \in DrawingSteps THEN [found EXCEPT ![i] = Append(@, rng)]
                ELSE found
    /\ pc' = [pc EXCEPT ![i] = next]
    /\ op' = name
    /\ UNCHANGED <<files, reads, cfg, store, img, arg_meta, prepared, calls>>

\* Worker i takes the step `name`, which leaves its sample and the generator
\* as in `out`, and goes to `next`.
PairStep(i, name, out, next) ==
    /\ s' = [s EXCEPT ![i] = out.sample]
    /\ rng' = out.rng
    /\ found' = IF name \in DrawingSteps THEN [found EXCEPT ![i] = Append(@, rng)]
                ELSE found
    /\ pc' = [pc EXCEPT ![i] = next]
    /\ op' = name
    /\ UNCHANGED <<files, reads, cfg, store, img, arg_meta, prepared, calls>>

PairConstruct ==
    \E i \in Samples :
        /\ pc[i] = "new"
        /\ PairStep(i, "__init__",
                    Worker(TrainingSample(img[i], arg_meta[i], store, cfg), rng),
                    "created")

PairCalculateTargetSize ==
    \E i \in Samples :
        /\ pc[i] = "created" /\ s[i].crop_enabled
        /\ PairStep(i, "calculate_target_size", StepCalculate(Worker(s[i], rng)),
                    "calculated")

PairDownsample ==
    \E i \in Samples :
        /\ pc[i] = "calculated"
        /\ PairStep(i, "_downsample_before_crop", StepDownsample(Worker(s[i], rng)),
                    "downsampled")

PairCrop ==
    \E i \in Samples :
        /\ pc[i] = "downsampled"
        /\ PairStep(i, "crop", StepCrop(Worker(s[i], rng)), "sized")

PairResize ==
    \E i \in Samples :
        /\ pc[i] = "created" /\ ~s[i].crop_enabled
        /\ PairStep(i, "resize", StepResize(Worker(s[i], rng)), "sized")

PairEmit ==
    \E i \in Samples :
        /\ pc[i] = "sized"
        /\ prepared' = [prepared EXCEPT ![i] = Emit(s[i], FALSE)]
        /\ pc' = [pc EXCEPT ![i] = "prepared"]
        /\ op' = "PreparedSample"
        /\ UNCHANGED <<files, reads, cfg, store, img, arg_meta, s, calls, rng, found>>

NextPair ==
    \/ PairConstruct \/ PairCalculateTargetSize \/ PairDownsample
    \/ PairCrop \/ PairResize \/ PairEmit

SpecPair == InitPair /\ [][NextPair]_vars

\* The two samples processed one after the other, `first` then `second`, from
\* the seed: what each worker ends with.
Serial(first, second) ==
    LET one == ProcessAlone(Worker(TrainingSample(img[first], arg_meta[first], store, cfg),
                                   Seeded(rng.seed)))
        two == ProcessAlone(Worker(TrainingSample(img[second], arg_meta[second], store, cfg),
                                   one.rng))
    IN  [i \in Samples |-> IF i = first THEN one.sample ELSE two.sample]

\* Sample i processed on its own, its steps starting from the generator
\* states found[i].
Replay(i) ==
    LET created == TrainingSample(img[i], arg_meta[i], store, cfg)
    IN  IF created.crop_enabled
        THEN StepCrop(Worker(StepDownsample(StepCalculate(Worker(created, found[i][1]))).sample,
                             found[i][2])).sample
        ELSE StepResize(Worker(created, found[i][1])).sample

-----------------------------------------------------------------------------
(* CSVDataBackend.read and its image cache *)

\* In this specification cfg holds the constructor arguments of the CSV
\* backend that read() consults.  A string the code takes apart is the
\* sequence of its characters; a URL is the sequence of the pieces its "/"
\* separate, the last of them the file name.

\* Number of reads served.
MaxReads == 3
\* A file name longer than this is shortened.
MaxFilenameLength == 250

NoCacheLoc == ""

Url(host, name) == [parts |-> <<"http:", "", host, name>>]

\* url_to_filename: url.split("/")[-1]
url_to_filename(url) == url.parts[Len(url.parts)]

\* str.replace(old, "-"), for an `old` no two occurrences of which overlap:
\* each occurrence leaves one "-", every other character stays.
Dropped == ""
Kept(c) == c # Dropped
OccursAt(str, old, i) ==
    i >= 1 /\ i + Len(old) - 1 =< Len(str) /\ SubSeq(str, i, i + Len(old) - 1) = old
Replaced(str, old) ==
    SelectSeq([i \in 1..Len(str) |->
                  IF OccursAt(str, old, i) THEN "-"
                  ELSE IF \E k \in 1..(Len(old) - 1) : OccursAt(str, old, i - k)
                  THEN Dropped
                  ELSE str[i]],
              Kept)

\* shorten_and_clean_filename
shorten_and_clean_filename(filename, no_op) ==
    IF no_op THEN filename
    ELSE LET cleaned == Replaced(Replaced(filename, <<"%", "2", "0">>), <<" ">>)
         IN  IF Len(cleaned) > MaxFilenameLength
             THEN SubSeq(cleaned, 1, 120) \o <<"-", "-", "-">>
                  \o SubSeq(cleaned, 127, Len(cleaned))
             ELSE cleaned

\* html_to_file_loc: the path of the file under parent_directory
html_to_file_loc(parent_directory, url, shorten_filenames) ==
    [dir |-> parent_directory,
     name |-> shorten_and_clean_filename(url_to_filename(url), shorten_filenames)]

\* location.startswith("http"), of a URL and of a path
IsHttp(location) ==
    IF "parts" \in DOMAIN location THEN TRUE ELSE location.dir = "http_cache"

\* os.path.exists: a file of the cache, or the cache directory itself
Exists(fs, path) == path.name = <<>> \/ path \in DOMAIN fs

\* open(path, "wb").write(data)
Written(fs, path, data) ==
    [q \in DOMAIN fs \cup {path} |-> IF q = path THEN data ELSE fs[q]]

\* requests.get(location).raw.data: what the server holds for the URL
Remote(url) == [served |-> url]

\* data before anything was assigned to it
Unassigned == [served |-> [parts |-> <<>>]]

\* The outcome of read(): the bytes returned or the exception raised, the
\* files afterwards, and whether the network was asked.
Outcome(data, err, fs, fetched) ==
    [data |-> data, err |-> err, files |-> fs, fetched |-> fetched]

\* read(), lines 98-106: the local read, and the return
ReadLocal(fs, location, data, fetched) ==
    IF ~IsHttp(location)
    THEN IF location.name = <<>> THEN Outcome(Unassigned, "IsADirectoryError", fs, fetched)
         ELSE IF location \notin DOMAIN fs
         THEN Outcome(Unassigned, "FileNotFoundError", fs, fetched)
         ELSE Outcome(fs[location], NoErr, fs, fetched)
    ELSE IF data = Unassigned THEN Outcome(data, "UnboundLocalError", fs, fetched)
    ELSE Outcome(data, NoErr, fs, fetched)

\* CSVDataBackend.read(location) of an http location
read(self, fs, location) ==
    IF self.image_cache_loc # NoCacheLoc
    THEN IF Exists(fs, html_to_file_loc(self.image_cache_loc, location,
                                        self.shorten_filenames))
         THEN ReadLocal(fs, html_to_file_loc(self.image_cache_loc, location,
                                             self.shorten_filenames),
                        Unassigned, FALSE)
         ELSE ReadLocal(Written(fs, html_to_file_loc(self.image_cache_loc, location,
                                                     self.shorten_filenames),
                                Remote(location)),
                        location, Remote(location), TRUE)
    ELSE ReadLocal(fs, location, Remote(location), TRUE)

\* File names: short ones, one with an escaped and one with a plain space,
\* the name both clean to, and long ones that differ in one character.
LongName(c) == [i \in 1..(MaxFilenameLength + 1) |-> IF i = 123 THEN c ELSE "x"]

Filenames ==
    {<<"a">>, <<"b">>, <<"a", "%", "2", "0", "b">>, <<"a", " ", "b">>,
     <<"a", "-", "b">>, LongName("y"), LongName("z"), <<>>}

\* The locations read: two hosts serve the name "a".
Locations ==
    {Url("h", name) : name \in Filenames} \cup {Url("g", <<"a">>)}

CSVBackends ==
    {[image_cache_loc |-> loc, shorten_filenames |-> flag] :
        loc \in {NoCacheLoc, "cache", "http_cache"}, flag \in BOOLEAN}

InitCSV ==
    /\ cfg \in CSVBackends
    /\ files = <<>>
    /\ reads = <<>>
    /\ calls = 0
    /\ op = "none"
    /\ pc = "ready"
    /\ store = NoMeta /\ img = NoImage /\ arg_meta = NoMeta /\ s = BlankSample
    /\ prepared = NoPrepared /\ rng = Seeded(0) /\ found = <<>>

\* backend.read(location)
Read ==
    /\ calls < MaxReads
    /\ \E location \in Locations :
          \E out \in {read(cfg, files, location)} :
              /\ files' = out.files
              /\ reads' = Append(reads, [location |-> location,
                                         cached |-> files,
                                         data |-> out.data,
                                         err |-> out.err,
                                         fetched |-> out.fetched])
    /\ calls' = calls + 1
    /\ op' = "read"
    /\ UNCHANGED <<cfg, store, img, arg_meta, s, pc, prepared, rng, found>>

NextCSV == Read

SpecCSV == InitCSV /\ [][NextCSV]_vars

-----------------------------------------------------------------------------
(* Vocabulary of the claims *)

Kinds(buckets) == {buckets[i].kind : i \in DOMAIN buckets}

\* The two variants of a bucket list: plain floats, {aspect, weight} records.
FloatList(buckets) == buckets # <<>> /\ Kinds(buckets) = {"float"}
WeightedList(buckets) == buckets # <<>> /\ Kinds(buckets) = {"dict"}

HasPortrait(buckets) == \E i \in DOMAIN buckets : buckets[i].aspect < 100
HasLandscape(buckets) == \E i \in DOMAIN buckets : buckets[i].aspect > 100

\* The last call returned (raised nothing).
Returned(name) == op = name /\ s.err = NoErr

\* The stored values prepare() is to reproduce, and the ones it returned.
Geometry(r) == <<r.target_size, r.intermediary_size, r.crop_coordinates, r.aspect_ratio>>

\* The original size can be determined: from the image, from the metadata
\* passed as image_metadata, or from the metadata looked up by the image path
\* (which the constructor consults when the argument is None or empty).
MetadataInUse == IF Truthy(arg_meta) THEN arg_meta ELSE store
SizeDeterminable ==
    \/ img.present
    \/ "original_size" \in arg_meta.keys
    \/ "original_size" \in MetadataInUse.keys

\* The constructor failed to determine the original size: the data error of
\* line 59, or the aspect ratio helper applied to a missing size.
SizeErrors == {DataError, "TypeError"}

BadConfig ==
    cfg.crop_style \notin crop_handlers \/ cfg.resolution_type \notin resize_helpers

\* The intermediary size the resolution policy computes for the sample at
\* its raw aspect ratio (calculate_target_size, lines 456-458).
ComputedIntermediary ==
    target_size_calculator(s.resolution_type,
                           calculate_image_aspect_ratio(s.original_size),
                           s.resolution, s.original_size).intermediary_size

\* Bucket b asks for more than 20% of upscaling of the original in a dimension.
UpscalesBeyondThreshold(b) ==
    LET target == target_size_calculator(s.resolution_type, b.aspect, s.resolution,
                                         s.original_size).target_size
    IN  \/ 10 * target[1] > 12 * s.original_size[1]
        \/ 10 * target[2] > 12 * s.original_size[2]

-----------------------------------------------------------------------------
(* Claims *)

\* C1 (as claimed; refuted by the code): with valid metadata, the
\* PreparedSample every prepare() returns has the stored target_size,
\* intermediary_size, crop_coordinates and aspect_ratio, for every crop
\* configuration.
C1_PrepareReproducesStoredGeometry ==
    (Returned("prepare") /\ s.valid_metadata)
        => Geometry(prepared) = Geometry(s.image_metadata)

\* C2: under the pixel policy with resolution R, whenever calculate_target_size
\* yields aspect ratio 1.0 the target size is exactly (R, R), and with crop
\* enabled and crop_aspect=square the aspect ratio it yields is 1.0.
C2_PixelSquareTargetIsResolution ==
    (Returned("calculate_target_size") /\ cfg.resolution_type = "pixel")
        => /\ s.aspect_ratio = 100
                => /\ s.target_size[1] * 1000 = cfg.resolution
                   /\ s.target_size[2] * 1000 = cfg.resolution
           /\ (cfg.crop /\ cfg.crop_aspect = "square") => s.aspect_ratio = 100

\* C2 witness: the resolution policy (no square crop) returned a square
\* target, which is the unaligned resolution 500 and not the aligned 512.
C2_Witness ==
    /\ Returned("calculate_target_size")
    /\ cfg.resolution_type = "pixel"
    /\ ~(cfg.crop /\ cfg.crop_aspect = "square")
    /\ s.aspect_ratio = 100
    /\ s.target_size = <<500, 500>>

\* C3 (as claimed; refuted): selection on a weighted list whose weights do not
\* sum to 1.0 fails with a configuration error, for every such list and image.
C3_BadWeightsAlwaysFail ==
    (op = "_select_random_aspect" /\ WeightedList(cfg.crop_aspect_buckets)
        /\ SumWeights(cfg.crop_aspect_buckets) # 4)
        => s.err = ConfigurationError

\* C3 (amended): without valid metadata, selection on a weighted list that
\* holds both a portrait and a landscape bucket and whose weights do not sum
\* to 1.0 fails with a configuration error, and nothing is sampled.
C3_BadWeightsFailWhenSampled ==
    (op = "_select_random_aspect" /\ WeightedList(cfg.crop_aspect_buckets)
        /\ SumWeights(cfg.crop_aspect_buckets) # 4
        /\ ~s.valid_metadata
        /\ HasPortrait(cfg.crop_aspect_buckets) /\ HasLandscape(cfg.crop_aspect_buckets))
        => s.err = ConfigurationError /\ "sample" \notin Range(s.trace)

C3_Witness ==
    /\ op = "_select_random_aspect"
    /\ WeightedList(cfg.crop_aspect_buckets)
    /\ SumWeights(cfg.crop_aspect_buckets) # 4
    /\ ~s.valid_metadata
    /\ HasPortrait(cfg.crop_aspect_buckets) /\ HasLandscape(cfg.crop_aspect_buckets)
    /\ s.err = ConfigurationError

\* C4: without valid metadata, selection on a float list or a weighted list
\* that holds no portrait bucket or no landscape bucket returns 1.0, for
\* every image.
C4_MissingFamilyIsSquare ==
    (op = "_select_random_aspect" /\ ~s.valid_metadata
        /\ (FloatList(cfg.crop_aspect_buckets) \/ WeightedList(cfg.crop_aspect_buckets))
        /\ (~HasPortrait(cfg.crop_aspect_buckets) \/ ~HasLandscape(cfg.crop_aspect_buckets)))
        => s.err = NoErr /\ s.ret = 100

\* C4 witness: a portrait image and a list of landscape floats only.
C4_Witness ==
    /\ Returned("_select_random_aspect")
    /\ ~s.valid_metadata
    /\ img = Portrait
    /\ FloatList(cfg.crop_aspect_buckets)
    /\ \A i \in DOMAIN cfg.crop_aspect_buckets : cfg.crop_aspect_buckets[i].aspect > 100
    /\ s.ret = 100

\* C5: no bucket whose target size asks for more than 20% of upscaling of the
\* original in a dimension is in the list _trim_aspect_bucket_list returns.
C5_TrimExcludesUpscaling ==
    (s.err = NoErr /\ "trim" \in Range(s.trace))
        => \A i \in DOMAIN s.crop_aspect_buckets :
               UpscalesBeyondThreshold(s.crop_aspect_buckets[i])
                   => s.crop_aspect_buckets[i].aspect \notin Range(s.available)

\* C5 witness: the original (500, 500) and a square bucket at 700 pixels,
\* whose target (704, 704) is 40% above the original: trimmed away.
C5_Witness ==
    /\ Returned("_trim_aspect_bucket_list")
    /\ s.original_size = <<500, 500>>
    /\ cfg.resolution = 700000
    /\ \E i \in DOMAIN s.crop_aspect_buckets :
           /\ s.crop_aspect_buckets[i].aspect = 100
           /\ UpscalesBeyondThreshold(s.crop_aspect_buckets[i])
    /\ 100 \notin Range(s.available)

\* C6 (as claimed; refuted): with crop enabled and crop_aspect=square, when the
\* computed intermediary size has an edge below pixel_resolution,
\* calculate_target_size leaves intermediary_size at (pixel_resolution,
\* pixel_resolution) and crop_coordinates at (0, 0).
C6_AnyShortEdgeIsCorrected ==
    (Returned("calculate_target_size") /\ cfg.crop /\ cfg.crop_aspect = "square"
        /\ (ComputedIntermediary[1] < s.pixel_resolution
            \/ ComputedIntermediary[2] < s.pixel_resolution))
        => /\ s.intermediary_size = <<s.pixel_resolution, s.pixel_resolution>>
           /\ s.crop_coordinates = <<0, 0>>

\* C6 (amended): the same when the computed intermediary width is below
\* pixel_resolution.
C6_ShortWidthIsCorrected ==
    (Returned("calculate_target_size") /\ cfg.crop /\ cfg.crop_aspect = "square"
        /\ ComputedIntermediary[1] < s.pixel_resolution)
        => /\ s.intermediary_size = <<s.pixel_resolution, s.pixel_resolution>>
           /\ s.crop_coordinates = <<0, 0>>

\* C6 witness: 1.0 megapixel gives the square image the intermediary size
\* (1000, 1000), below the pixel resolution 1024.
C6_Witness ==
    /\ Returned("calculate_target_size")
    /\ cfg.crop /\ cfg.crop_aspect = "square"
    /\ ComputedIntermediary = <<1000, 1000>>
    /\ s.pixel_resolution = 1024
    /\ s.intermediary_size = <<1024, 1024>>
    /\ s.crop_coordinates = <<0, 0>>

\* C7 (as claimed; refuted by the code): construction fails on the original
\* size exactly when neither the image nor the metadata (passed or looked up)
\* gives it, and otherwise establishes original_size.
C7_SizeFromImageOrMetadata ==
    op = "__init__"
        => /\ (s.err \in SizeErrors) <=> ~SizeDeterminable
           /\ SizeDeterminable => s.original_size # NoneSize

C9_MalformedListsFail ==
    (op = "_select_random_aspect"
        /\ ~(FloatList(cfg.crop_aspect_buckets) \/ WeightedList(cfg.crop_aspect_buckets)))
        => s.err = ConfigurationError

\* C10 (as claimed; refuted): with valid metadata _select_random_aspect
\* returns the stored aspect ratio without sampling, trimming or validating
\* the buckets.
C10_ValidMetadataAlwaysSkips ==
    (op = "_select_random_aspect" /\ s.valid_metadata)
        => /\ s.err = NoErr
           /\ s.ret = s.image_metadata.aspect_ratio
           /\ s.trace = <<>>

\* C10 (amended): with valid metadata and a bucket list that is not empty,
\* _select_random_aspect returns the stored aspect ratio without sampling,
\* trimming or validating the buckets.
C10_ValidMetadataSkipsSelection ==
    (op = "_select_random_aspect" /\ s.valid_metadata /\ cfg.crop_aspect_buckets # <<>>)
        => /\ s.err = NoErr
           /\ s.ret = s.image_metadata.aspect_ratio
           /\ s.aspect_ratio = s.image_metadata.aspect_ratio
           /\ s.trace = <<>>

\* C10 witness: the stored ratio 1.5 comes back although the list is neither
\* all floats nor all records.
C10_Witness ==
    /\ Returned("_select_random_aspect")
    /\ s.valid_metadata
    /\ ~(FloatList(cfg.crop_aspect_buckets) \/ WeightedList(cfg.crop_aspect_buckets))
    /\ s.ret = 150

\* The steps of the call in progress.  A resize that follows "downsample" is
\* the pre-crop downsample of the crop pipeline; any other resize is the
\* resize pipeline of resize().
RanCropPipeline == "crop" \in Range(s.trace)
RanResizePipeline ==
    \E i \in DOMAIN s.trace :
        s.trace[i] = "resize" /\ (i = 1 \/ s.trace[i - 1] # "downsample")
Corrected(image) == image.present => (image.rgb /\ ~image.exif)

\* C11: the image is corrected at construction, before any crop or resize;
\* prepare() runs the crop pipeline exactly when crop is enabled and the
\* resize pipeline exactly when it is disabled; crop() with crop disabled
\* changes nothing; the PreparedSample is emitted last.
C11_PipelineOrder ==
    /\ Returned("__init__")
           => s.trace = (IF img.present THEN <<"correct_image">> ELSE <<>>)
    /\ pc = "ready" => Corrected(s.image)
    /\ Returned("prepare")
           => /\ RanCropPipeline <=> cfg.crop
              /\ RanResizePipeline <=> ~cfg.crop
              /\ s.trace[Len(s.trace)] = "PreparedSample"
              /\ \A i \in 1..(Len(s.trace) - 1) : s.trace[i] # "PreparedSample"
              /\ Corrected(prepared.image)
    /\ (op = "crop" /\ ~cfg.crop) => s.err = NoErr /\ s.trace = <<>>
    /\ (pc = "ready" /\ ~s.crop_enabled)
           => \A pick \in PicksOf(s), rx \in DrawsOf(s), ry \in DrawsOf(s) :
                  crop(s, pick, rx, ry) = s

\* C11 witness: a prepare() with crop enabled whose crop pipeline downsampled
\* (a resize inside the crop pipeline) before it cropped.
C11_Witness ==
    /\ Returned("prepare")
    /\ cfg.crop
    /\ RanCropPipeline
    /\ "downsample" \in Range(s.trace)
    /\ s.trace[Len(s.trace)] = "PreparedSample"

\* C12 (as claimed; refuted by the code): with crop enabled, the size handed
\* to the cropper for the final crop of prepare() is the intermediary_size
\* the PreparedSample reports, with or without the pre-crop downsample.
C12_CropsFromIntermediarySize ==
    (Returned("prepare") /\ cfg.crop)
        => s.cropper.intermediary_size = prepared.intermediary_size

\* C13 (as claimed; refuted by the code): the PreparedSample prepare() returns
\* has exactly the keys image, original_size, intermediary_size, target_size,
\* aspect_ratio, crop_coordinates in to_dict(), its geometry is that of the
\* TrainingSample when prepare() returned, and a later crop() or resize() of
\* the TrainingSample changes none of its fields.
C13_PreparedSampleIsSnapshot ==
    [][/\ (op' = "prepare" /\ s'.err = NoErr)
              => /\ DOMAIN to_dict(prepared') =
                        {"image", "original_size", "intermediary_size", "target_size",
                         "aspect_ratio", "crop_coordinates"}
                 /\ to_dict(prepared').original_size = s'.original_size
                 /\ to_dict(prepared').intermediary_size = s'.intermediary_size
                 /\ to_dict(prepared').target_size = s'.target_size
                 /\ to_dict(prepared').crop_coordinates = s'.crop_coordinates
                 /\ to_dict(prepared').aspect_ratio = s'.aspect_ratio
       /\ op' \in {"crop", "resize", "resize(size)"} => prepared' = prepared]_vars

SelectsAmongBoth ==
    /\ op = "_select_random_aspect"
    /\ ~s.valid_metadata
    /\ HasPortrait(cfg.crop_aspect_buckets) /\ HasLandscape(cfg.crop_aspect_buckets)
ConfiguredAspects == {cfg.crop_aspect_buckets[i].aspect : i \in DOMAIN cfg.crop_aspect_buckets}

\* C15, the weighted variant: the selected aspect is a configured one and the
\* upscale filter is not applied.
WeightedSelectsConfigured ==
    (SelectsAmongBoth /\ WeightedList(cfg.crop_aspect_buckets) /\ s.err = NoErr)
        => s.ret \in ConfiguredAspects /\ "trim" \notin Range(s.trace)

\* C15 (as claimed; refuted): in the float-list variant the selected aspect is
\* a member of the upscale-filtered list, and is 1.0 exactly when that list
\* is empty; in the weighted variant it is a configured aspect and the filter
\* is not applied.
C15_SquareExactlyWhenNoCandidate ==
    /\ (SelectsAmongBoth /\ FloatList(cfg.crop_aspect_buckets))
           => /\ s.err = NoErr /\ "trim" \in Range(s.trace)
              /\ s.available # <<>> => s.ret \in Range(s.available)
              /\ s.ret = 100 <=> s.available = <<>>
    /\ WeightedSelectsConfigured

\* C15 (amended): in the float-list variant the selected aspect is a member
\* of the upscale-filtered list when that list is not empty, and is 1.0 when
\* it is empty; the weighted variant as claimed.
C15_SelectedAmongCandidates ==
    /\ (SelectsAmongBoth /\ FloatList(cfg.crop_aspect_buckets))
           => /\ s.err = NoErr /\ "trim" \in Range(s.trace)
              /\ s.available # <<>> => s.ret \in Range(s.available)
              /\ s.available = <<>> => s.ret = 100
    /\ WeightedSelectsConfigured

\* C15 witness: the weighted variant returned a bucket whose target size asks
\* for more than 20% of upscaling, which the float-list variant trims away.
C15_Witness ==
    /\ SelectsAmongBoth /\ s.err = NoErr
    /\ WeightedList(s.crop_aspect_buckets)
    /\ \E i \in DOMAIN s.crop_aspect_buckets :
           /\ s.crop_aspect_buckets[i].aspect = s.ret
           /\ UpscalesBeyondThreshold(s.crop_aspect_buckets[i])

\* Bucket b asks for less than 20% of upscaling of the original in both
\* dimensions (none at all when its target size is within the original).
UpscalesWithinThreshold(b) ==
    LET target == target_size_calculator(s.resolution_type, b.aspect, s.resolution,
                                         s.original_size).target_size
    IN  /\ 10 * target[1] < 12 * s.original_size[1]
        /\ 10 * target[2] < 12 * s.original_size[2]

\* C16 (as claimed; refuted by the code): every bucket whose target size asks
\* for less than 20% of upscaling in both dimensions is in the list
\* _trim_aspect_bucket_list returns.
C16_TrimKeepsWorkingBuckets ==
    (s.err = NoErr /\ "trim" \in Range(s.trace))
        => \A i \in DOMAIN s.crop_aspect_buckets :
               UpscalesWithinThreshold(s.crop_aspect_buckets[i])
                   => s.crop_aspect_buckets[i].aspect \in Range(s.available)

-----------------------------------------------------------------------------
(* C17, C18: the downsample before the crop *)

\* The sample is configured to downsample before it crops.
DownsampleConfigured ==
    cfg.crop /\ cfg.maximum_image_size # 0 /\ cfg.target_downsample_size # 0

\* The area of the image (of the original size while no image is bound), and
\* the area the area policy aims at (resolution megapixels), both in pixels.
CurrentArea == area(s)
ConfiguredArea == cfg.resolution * 1000

SmallerThanTarget == \E d \in 1..2 : s.current_size[d] < s.target_size[d]

\* C17: _should_resize_before_crop returns False when cropping is disabled or
\* maximum_image_size or target_downsample_size is not configured; otherwise
\* under the pixel policy it returns True exactly when current_size differs
\* from the pixel resolution in a dimension, and under the area policy
\* exactly when the current area differs from the target area or
\* current_size is smaller than target_size in a dimension.
C17_DownsampleDecision ==
    Returned("_should_resize_before_crop") =>
        s.ret = IF ~DownsampleConfigured THEN FALSE
                ELSE IF cfg.resolution_type = "pixel"
                THEN \E d \in 1..2 : s.current_size[d] # cfg.resolution \div 1000
                ELSE CurrentArea # ConfiguredArea \/ SmallerThanTarget

\* The area policy with the image at exactly the target area: the decision
\* rests on an edge shorter than the target's.
C17_Witness ==
    /\ Returned("_should_resize_before_crop")
    /\ DownsampleConfigured
    /\ cfg.resolution_type = "area"
    /\ CurrentArea = ConfiguredArea
    /\ SmallerThanTarget
    /\ s.ret = TRUE

\* C18: the size _calculate_target_downsample_size returns is never smaller
\* than target_size on either edge.
C18_DownsampleSizeCoversTarget ==
    Returned("_calculate_target_downsample_size") =>
        \A d \in 1..2 : s.ret[d] >= s.target_size[d]
-----------------------------------------------------------------------------
(* C19: the crop pipeline *)

IsCropStep(step) == step \in {"calculate_target_size", "downsample", "cropper.crop"}

\* The steps of the crop pipeline in the call that just returned.
CropSteps == SelectSeq(s.trace, IsCropStep)

\* What the cropper the sample holds returns for the target size.
CropperOffsets ==
    {cropper_crop(s.crop_style, s.cropper, s.target_size, rx, ry).crop_coordinates :
        rx \in DrawsOf(s), ry \in DrawsOf(s)}

\* C19: crop() with cropping enabled computes the target size, then
\* conditionally downsamples, then binds the image to the cropper (only when
\* one is bound), then crops to target_size; on return current_size equals
\* target_size and crop_coordinates is the offset the cropper returned.
C19_CropPipeline ==
    (Returned("crop") /\ cfg.crop) =>
        /\ CropSteps \in {<<"calculate_target_size", "cropper.crop">>,
                          <<"calculate_target_size", "downsample", "cropper.crop">>}
        /\ s.trace[Len(s.trace)] = "cropper.crop"
        /\ s.cropper.image.present = img.present
        /\ ("downsample" \in Range(s.trace) /\ img.present) =>
               s.cropper.image.size = s.cropper.intermediary_size
        /\ s.image.present = img.present
        /\ s.image.present => s.image.size = s.target_size
        /\ s.current_size = s.target_size
        /\ s.crop_coordinates \in CropperOffsets

\* A bound image downsampled, then cropped at an offset.
C19_Witness ==
    /\ Returned("crop")
    /\ cfg.crop
    /\ CropSteps = <<"calculate_target_size", "downsample", "cropper.crop">>
    /\ s.image.present
    /\ s.current_size = s.target_size
    /\ s.crop_coordinates # <<0, 0>>
-----------------------------------------------------------------------------
(* C20: resize() with cropping disabled *)

IsResizeStep(step) == step \in {"resize", "cropper.crop"}

\* The resizes and crops of the call that just returned.
ResizeSteps == SelectSeq(s.trace, IsResizeStep)

\* resize() without a size returned, called directly or by prepare().
ResizedToTarget == ~cfg.crop /\ (Returned("resize") \/ Returned("prepare"))

\* C20: with cropping disabled, resize() without a size resizes the image
\* to intermediary_size and then invokes the crop strategy with target_size
\* when the two sizes differ, so that the image has exactly target_size; when
\* they are equal it resizes the image directly to target_size and does not
\* invoke the crop strategy; resize(size) resizes the image directly to size.
C20_ResizeWithoutCrop ==
    /\ (ResizedToTarget /\ s.target_size # s.intermediary_size) =>
           /\ ResizeSteps = <<"resize", "cropper.crop">>
           /\ s.cropper.intermediary_size = s.intermediary_size
           /\ s.image.present = img.present
           /\ s.image.present =>
                  /\ s.cropper.image.size = s.intermediary_size
                  /\ s.image.size = s.target_size
    /\ (ResizedToTarget /\ s.target_size = s.intermediary_size) =>
           /\ ResizeSteps = <<"resize">>
           /\ s.image.present = img.present
           /\ s.image.present => s.image.size = s.target_size
    /\ (~cfg.crop /\ Returned("resize(size)")) =>
           /\ ResizeSteps = <<"resize">>
           /\ s.current_size \in ResizeArguments \ {NoneSize}
           /\ s.image.present = img.present
           /\ s.image.present => s.image.size = s.current_size

\* A bound image resized to an intermediary size, then cropped to the target.
C20_Witness ==
    /\ ResizedToTarget
    /\ op = "resize"
    /\ s.target_size # s.intermediary_size
    /\ s.image.present
    /\ s.image.size = s.target_size
    /\ ResizeSteps = <<"resize", "cropper.crop">>

-----------------------------------------------------------------------------
(* C21: current_size and the bound image *)

\* __init__, crop(), resize() or prepare() just returned.
ReturnedFromStep ==
    s.err = NoErr /\ op \in {"__init__", "crop", "resize", "resize(size)", "prepare"}

\* C21: after construction and after every crop(), resize() and prepare() of
\* a sample with a bound image, current_size is the size of the bound image;
\* after prepare() it is also target_size, with cropping enabled or disabled.
C21_CurrentSizeIsImageSize ==
    (ReturnedFromStep /\ s.image.present) =>
        /\ s.current_size = s.image.size
        /\ op = "prepare" => s.current_size = s.target_size

-----------------------------------------------------------------------------
(* C22: the sizes are set before prepare() reads them *)

\* The places of prepare() from which target_size, intermediary_size or
\* aspect_ratio is read next: by _should_resize_before_crop and
\* _calculate_target_downsample_size, by the cropper call, by resize(), by
\* the construction of the PreparedSample.
BeforeRead == {"calculated", "downsampled", "resizing", "sized"}

SizesSet ==
    /\ s.target_size # NoneSize
    /\ s.intermediary_size # NoneSize
    /\ s.aspect_ratio # NoAspect

\* C22: on every path through prepare(), with cropping enabled or disabled,
\* any crop_aspect, either policy, valid metadata or not, an image bound or
\* not, target_size, intermediary_size and aspect_ratio are set before
\* _should_resize_before_crop, _calculate_target_downsample_size, the cropper
\* call, resize() or the PreparedSample construction reads them.
C22_SizesSetBeforeRead ==
    pc \in BeforeRead => SizesSet

\* resize() about to read sizes it did not compute: metadata supplied them,
\* and no image is bound.
C22_Witness ==
    /\ pc = "resizing"
    /\ ~cfg.crop
    /\ s.valid_metadata
    /\ ~s.image.present
    /\ SizesSet

-----------------------------------------------------------------------------
(* C23: the image cache of the CSV backend *)

CacheConfigured == cfg.image_cache_loc # NoCacheLoc

\* The cache file of a location.
CachedLoc(location) ==
    html_to_file_loc(cfg.image_cache_loc, location, cfg.shorten_filenames)

\* C23: with image_cache_loc configured read() is a read-through cache: for
\* any sequence of reads of http locations, the network is asked only when no
\* cached file exists for the location, what was fetched is in the cache file
\* when read returns, every later read of the location is served from the
\* cache file without a fetch, and each read returns the bytes the network
\* holds for the location, whether it came from the network or the cache.
C23_ReadThroughCache ==
    CacheConfigured =>
        \A i \in DOMAIN reads :
            /\ reads[i].fetched = ~Exists(reads[i].cached, CachedLoc(reads[i].location))
            /\ reads[i].fetched =>
                   /\ CachedLoc(reads[i].location) \in DOMAIN files
                   /\ files[CachedLoc(reads[i].location)] = reads[i].data
            /\ \A j \in DOMAIN reads :
                   (j > i /\ reads[j].location = reads[i].location) => ~reads[j].fetched
            /\ reads[i].err = NoErr
            /\ reads[i].data = Remote(reads[i].location)
====
